---- MODULE Spec2Model ----
(***************************************************************************)
(* Maelstrom node runtime (maelstrom/src/app.rs) and the broadcast         *)
(* application built on it (broadcast/src/main.rs).                        *)
(*                                                                         *)
(* The module holds state machines over disjoint variables:                *)
(*   - the runtime of one node: the stdin thread, the routing loop of      *)
(*     event_loop, the app task and the writer task (RuntimeSpec);         *)
(*   - one broadcast node with a clock (NodeSpec);                         *)
(*   - a cluster of broadcast nodes joined by a wire (ClusterSpec,         *)
(*     LossySpec);                                                         *)
(*   - the construction of a broadcast node for any cluster (NewSpec);     *)
(*   - counter nodes (g-counter/src/main.rs) and the Seq-KV service they   *)
(*     call through maelstrom/src/app/services/seq_kv.rs (CounterSpec,     *)
(*     AnyReplySpec).                                                      *)
(* Each specification pins the variables of the other machines.            *)
(***************************************************************************)
EXTENDS Integers, Sequences, FiniteSets, TLC

(***************************************************************************)
(* Bounds of the model.                                                    *)
(***************************************************************************)
\* lines the harness writes to stdin of the modelled run
MaxLines == 3
\* envelopes one run of the runtime emits (msg_id stays below it)
MaxMsgId == 3
\* writer calls one handle or tick invocation of the generic app makes
MaxOps == 2

\* Option::None of an Option<MessageID>, and of the line a slot holds
NoId == -1
NoLine == 0

Range(s) == {s[i] : i \in 1..Len(s)}

(***************************************************************************)
(* Runtime: maelstrom/src/app.rs                                           *)
(***************************************************************************)
VARIABLES
    stdin_open,              \* stdin has not reached end-of-input
    stdin_log,               \* every line read from stdin so far, in order
    message_receiver,        \* channel stdin thread -> event_loop (line numbers)
    main_pc,                 \* position of event_loop
    main_line,               \* the line the routing loop holds
    result,                  \* what event_loop returned
    response_callback_receiver, \* channel of (message_id, oneshot sender)
    response_callbacks,      \* HashMap of event_loop: registered message ids
    oneshot,                 \* line delivered to the awaiting caller, or NoLine
    app_message_receiver,    \* channel event_loop -> app task (line numbers)
    app_pc,                  \* position of the app task
    app_ctx,                 \* the callback the app task is inside: handle / tick
    app_message,             \* the line handle was invoked with
    app_result,              \* what the app task returned
    ops_left,                \* writer calls the running callback may still make
    sar_id,                  \* message id of the send_and_receive in progress
    msg_id,                  \* MessageWriter.msg_id (AtomicU32)
    msg_writer_receiver,     \* channel MessageWriter -> writer task (envelopes)
    stdout,                  \* envelopes written to stdout, in order
    writer_pc,               \* position of the writer task
    writer_result,           \* what the writer task returned
    dispatched,              \* history: line numbers sent to the app task
    handled,                 \* history: line numbers handle was invoked with
    delivered,               \* history: (id, line) given to a oneshot sender
    rpc_returned             \* history: (id, line) send_and_receive returned

rtVars == <<stdin_open, stdin_log, message_receiver, main_pc, main_line, result,
            response_callback_receiver, response_callbacks, oneshot,
            app_message_receiver, app_pc, app_ctx, app_message, app_result,
            ops_left, sar_id, msg_id, msg_writer_receiver, stdout, writer_pc,
            writer_result, dispatched, handled, delivered, rpc_returned>>

(***************************************************************************)
(* One broadcast node with a clock, and a cluster of them.                 *)
(***************************************************************************)
VARIABLES
    bnode,                   \* the Broadcast struct of the node, its writer's msg_id
    bhist                    \* history of the node's emissions and deliveries

nodeVars == <<bnode, bhist>>

VARIABLES
    cluster,                 \* node id -> Broadcast struct and writer's msg_id
    wire,                    \* envelopes in flight between servers
    env                      \* the harness: requests made, budgets used

clusterVars == <<cluster, wire, env>>

\* the construction of the application (app.rs 139, 165)
VARIABLES
    init,                    \* node_id and node_ids of the init message
    app                      \* what TApp::new returned, NotBuilt before the call

newVars == <<init, app>>

\* the counter nodes (g-counter/src/main.rs) and the Seq-KV service they call
VARIABLES
    kv,                      \* the value the service holds under "counter", or NoValue
    counters,                \* node id -> GCounter, the position of its tick, its RPC
    adds                     \* the harness: add requests made and the sum of their deltas

counterVars == <<kv, counters, adds>>

vars == <<rtVars, nodeVars, clusterVars, newVars, counterVars>>

NodeId == "n1"
Srcs == {"c1"}
Dsts == {"n2", "seq-kv"}

\* results of event_loop and of its tasks
Ok == "ok"
ErrNoFirst == "Failed to receive first message!"
ErrInitDeser == "Couldn't deserialize init Message"
ErrNotInit == "Did not get Init message as first message"
ErrDeser == "Couldn't deserialize Message"
ErrAppGone == "Failed to send Message to app task!"
ErrPayload == "Couldn't convert payload type!"
ErrHandle == "App failed to handle message"
ErrTick == "App failed to tick"
ErrWriterGone == "Could not send to msg_writer task!"
ErrStdout == "Failed to write message to stdout"

\* AtomicU32::fetch_add(1): the value of the counter after the call.  The
\* counter wraps at 2^32; every guard keeps it below MaxMsgId, far from there.
FetchAddStale(c) == c
FetchAdd(c) == c + 1

Envelope(id, irt, dst, kind) ==
    [src |-> NodeId, dst |-> dst, msg_id |-> id, in_reply_to |-> irt, kind |-> kind]

Line(kind, irt, src, n) ==
    [kind |-> kind, in_reply_to |-> irt, src |-> src, msg_id |-> n]

\* a counter that starts at one
FirstMsgIdOne == 0 + 1
\* msg_id: Arc::new(AtomicU32::new(0)) (160)
FirstMsgId == 0

\* a reply that copies the received envelope's in_reply_to instead of its msg_id
ReplyEcho(received, id, kind) == Envelope(id, received.in_reply_to, received.src, kind)

\* the envelope reply_to builds (47-55): to the sender, answering its msg_id
ReplyEnvelope(received, id, kind) == Envelope(id, received.msg_id, received.src, kind)

\* the process is running: event_loop has not returned to main
Running == main_pc /= "returned"

\* write_message succeeds while the writer task holds msg_writer_receiver
WriterAlive == writer_pc = "running"

RuntimeInit ==
    /\ stdin_open = TRUE
    /\ stdin_log = <<>>
    /\ message_receiver = <<>>
    /\ main_pc = "recv_init"
    /\ main_line = NoLine
    /\ result = "none"
    /\ response_callback_receiver = <<>>
    /\ response_callbacks = {}
    /\ oneshot = NoLine
    /\ app_message_receiver = <<>>
    /\ app_pc = "not_spawned"
    /\ app_ctx = "none"
    /\ app_message = NoLine
    /\ app_result = "none"
    /\ ops_left = 0
    /\ sar_id = NoId
    /\ msg_id = 0
    /\ msg_writer_receiver = <<>>
    /\ stdout = <<>>
    /\ writer_pc = "not_spawned"
    /\ writer_result = "none"
    /\ dispatched = <<>>
    /\ handled = <<>>
    /\ delivered = {}
    /\ rpc_returned = {}

(***************************************************************************)
(* The harness and the stdin thread (app.rs 122-131).  A line is read and  *)
(* sent to message_receiver in one step.  The first line is the harness's  *)
(* init (or something else, which event_loop rejects); later lines carry   *)
(* an application payload, a payload the application's type does not       *)
(* know, or text that is no envelope.  The harness answers only what it    *)
(* has seen on stdout: in_reply_to names a send or an RPC already written. *)
(***************************************************************************)
Answerable == {stdout[i].msg_id : i \in {j \in 1..Len(stdout) : stdout[j].kind \in {"send", "rpc"}}}

FirstLines(n) ==
    {Line(k, NoId, s, n) : k \in {"init", "init_ok", "app"}, s \in {"c1"}}

LaterLines(n) ==
    {Line(k, irt, s, n) : k \in {"app", "unknown"}, irt \in {NoId} \cup Answerable, s \in Srcs}
        \cup {Line("garbage", NoId, "c1", n)}

StdinLine ==
    /\ Running
    /\ stdin_open
    /\ Len(stdin_log) < MaxLines
    /\ \E l \in (IF stdin_log = <<>> THEN FirstLines(1) ELSE LaterLines(Len(stdin_log) + 1)) :
          /\ stdin_log' = Append(stdin_log, l)
          /\ message_receiver' = Append(message_receiver, Len(stdin_log) + 1)
    /\ UNCHANGED <<stdin_open, main_pc, main_line, result, response_callback_receiver,
                   response_callbacks, oneshot, app_message_receiver, app_pc, app_ctx,
                   app_message, app_result, ops_left, sar_id, msg_id, msg_writer_receiver,
                   stdout, writer_pc, writer_result, dispatched, handled, delivered, rpc_returned,
                   nodeVars, clusterVars, newVars, counterVars>>

\* end-of-input: the stdin thread leaves its loop and drops message_sender
StdinEof ==
    /\ Running
    /\ stdin_open
    /\ stdin_open' = FALSE
    /\ UNCHANGED <<stdin_log, message_receiver, main_pc, main_line, result,
                   response_callback_receiver, response_callbacks, oneshot,
                   app_message_receiver, app_pc, app_ctx, app_message, app_result,
                   ops_left, sar_id, msg_id, msg_writer_receiver, stdout, writer_pc,
                   writer_result, dispatched, handled, delivered, rpc_returned,
                   nodeVars, clusterVars, newVars, counterVars>>

(***************************************************************************)
(* event_loop up to the spawn of the app task (app.rs 133-170).            *)
(***************************************************************************)
EventLoopInit ==
    /\ main_pc = "recv_init"
    /\ \/ /\ message_receiver /= <<>>
          /\ message_receiver' = Tail(message_receiver)
          /\ LET l == stdin_log[Head(message_receiver)] IN
             IF l.kind = "init"
             THEN \* writer with msg_id 0, App::new, reply_to(init, InitOk), spawn
                  /\ msg_id' = FetchAdd(FirstMsgId)
                  /\ msg_writer_receiver' = <<ReplyEnvelope(l, FirstMsgId, "init_ok")>>
                  /\ writer_pc' = "running"
                  /\ app_pc' = "idle"
                  /\ main_pc' = "recv"
                  /\ UNCHANGED result
             ELSE /\ result' = (IF l.kind = "init_ok" THEN ErrNotInit ELSE ErrInitDeser)
                  /\ main_pc' = "returned"
                  /\ UNCHANGED <<msg_id, msg_writer_receiver, writer_pc, app_pc>>
       \/ /\ message_receiver = <<>>
          /\ ~stdin_open
          /\ result' = ErrNoFirst
          /\ main_pc' = "returned"
          /\ UNCHANGED <<message_receiver, msg_id, msg_writer_receiver, writer_pc, app_pc>>
    /\ UNCHANGED <<stdin_open, stdin_log, main_line, response_callback_receiver,
                   response_callbacks, oneshot, app_message_receiver, app_ctx, app_message,
                   app_result, ops_left, sar_id, stdout, writer_result, dispatched, handled,
                   delivered, rpc_returned,
                   nodeVars, clusterVars, newVars, counterVars>>

(***************************************************************************)
(* The routing loop of event_loop (app.rs 202-227).                        *)
(***************************************************************************)
\* while let Some(message) = message_receiver.recv().await
EventLoopRecv ==
    /\ main_pc = "recv"
    /\ \/ /\ message_receiver /= <<>>
          /\ main_line' = Head(message_receiver)
          /\ message_receiver' = Tail(message_receiver)
          /\ main_pc' = "route"
       \/ /\ message_receiver = <<>>
          /\ ~stdin_open
          /\ main_pc' = "await_app"
          /\ UNCHANGED <<main_line, message_receiver>>
    /\ UNCHANGED <<stdin_open, stdin_log, result, response_callback_receiver,
                   response_callbacks, oneshot, app_message_receiver, app_pc, app_ctx,
                   app_message, app_result, ops_left, sar_id, msg_id, msg_writer_receiver,
                   stdout, writer_pc, writer_result, dispatched, handled, delivered, rpc_returned,
                   nodeVars, clusterVars, newVars, counterVars>>

\* while let Ok(..) = response_callback_receiver.try_recv() { insert } (204-210)
DrainNothing(callbacks, chan) == callbacks
DrainCallbacks(callbacks, chan) == callbacks \cup Range(chan)

\* the app task has returned and dropped app_message_receiver
AppGone == app_pc = "finished"

\* a channel that hands the newest message out first
SendToFront(chan, line) == <<line>> \o chan

\* app_message_sender.send(message) (224-226): the unbounded channel keeps order
AppMessageSend(chan, line) == Append(chan, line)

EventLoopRoute ==
    /\ main_pc = "route"
    /\ LET l == stdin_log[main_line]
           callbacks == DrainCallbacks(response_callbacks, response_callback_receiver)
       IN
       /\ response_callback_receiver' = <<>>
       /\ main_line' = NoLine
       /\ IF l.kind = "garbage"
          THEN /\ result' = ErrDeser
               /\ main_pc' = "returned"
               /\ response_callbacks' = callbacks
               /\ UNCHANGED <<oneshot, app_message_receiver, dispatched, delivered>>
          ELSE IF l.in_reply_to /= NoId /\ l.in_reply_to \in callbacks
          THEN /\ response_callbacks' = callbacks \ {l.in_reply_to}
               /\ oneshot' = main_line
               /\ delivered' = delivered \cup {<<l.in_reply_to, main_line>>}
               /\ main_pc' = "recv"
               /\ UNCHANGED <<result, app_message_receiver, dispatched>>
          ELSE IF AppGone
          THEN /\ result' = ErrAppGone
               /\ main_pc' = "returned"
               /\ response_callbacks' = callbacks
               /\ UNCHANGED <<oneshot, app_message_receiver, dispatched, delivered>>
          ELSE /\ app_message_receiver' = AppMessageSend(app_message_receiver, main_line)
               /\ dispatched' = Append(dispatched, main_line)
               /\ response_callbacks' = callbacks
               /\ main_pc' = "recv"
               /\ UNCHANGED <<result, oneshot, delivered>>
    /\ UNCHANGED <<stdin_open, stdin_log, message_receiver, app_pc, app_ctx, app_message,
                   app_result, ops_left, sar_id, msg_id, msg_writer_receiver, stdout,
                   writer_pc, writer_result, handled, rpc_returned,
                   nodeVars, clusterVars, newVars, counterVars>>

\* app_task_handle.await??; writer_task_handle.await??; Ok(()) (229-232)
EventLoopAwait ==
    /\ main_pc \in {"await_app", "await_writer"}
    /\ IF main_pc = "await_app"
       THEN /\ app_pc = "finished"
            /\ IF app_result = Ok
               THEN main_pc' = "await_writer" /\ UNCHANGED result
               ELSE main_pc' = "returned" /\ result' = app_result
       ELSE /\ writer_pc = "finished"
            /\ main_pc' = "returned"
            /\ result' = writer_result
    /\ UNCHANGED <<stdin_open, stdin_log, message_receiver, main_line,
                   response_callback_receiver, response_callbacks, oneshot,
                   app_message_receiver, app_pc, app_ctx, app_message, app_result,
                   ops_left, sar_id, msg_id, msg_writer_receiver, stdout, writer_pc,
                   writer_result, dispatched, handled, delivered, rpc_returned, nodeVars,
                   clusterVars, newVars, counterVars>>

(***************************************************************************)
(* MessageWriter (app.rs 29-102).  write_message hands the envelope to the *)
(* writer task; it fails once that task has dropped msg_writer_receiver.   *)
(***************************************************************************)
WriteMessage(chan, envelope) == Append(chan, envelope)

(***************************************************************************)
(* The app task (app.rs 170-200), for an application whose handle and tick *)
(* make any mix of reply_to, send_to and send_and_receive calls (at most   *)
(* MaxOps per invocation) and return Ok or a fault.                        *)
(***************************************************************************)
\* app_message_sender lives in event_loop's frame until event_loop returns
AppSenderDropped == ~Running

\* timeout(tick_rate, app_message_receiver.recv()).await and into_payload (174-189)
AppWait ==
    /\ Running
    /\ app_pc = "idle"
    /\ IF app_message_receiver /= <<>>
       THEN /\ app_message_receiver' = Tail(app_message_receiver)
            /\ IF stdin_log[Head(app_message_receiver)].kind = "app"
               THEN /\ app_pc' = "run"
                    /\ app_ctx' = "handle"
                    /\ app_message' = Head(app_message_receiver)
                    /\ handled' = Append(handled, Head(app_message_receiver))
                    /\ ops_left' = MaxOps
                    /\ UNCHANGED app_result
               ELSE \* message.into_payload::<TPayload>()?
                    /\ app_pc' = "finished"
                    /\ app_result' = ErrPayload
                    /\ UNCHANGED <<app_ctx, app_message, handled, ops_left>>
       ELSE IF AppSenderDropped
       THEN \* Ok(None) => break
            /\ app_pc' = "finished"
            /\ app_result' = Ok
            /\ UNCHANGED <<app_message_receiver, app_ctx, app_message, handled, ops_left>>
       ELSE \* Err(_elapsed): last_tick is at least tick_rate old
            /\ app_pc' = "run"
            /\ app_ctx' = "tick"
            /\ ops_left' = MaxOps
            /\ UNCHANGED <<app_message_receiver, app_message, handled, app_result>>
    /\ UNCHANGED <<stdin_open, stdin_log, message_receiver, main_pc, main_line, result,
                   response_callback_receiver, response_callbacks, oneshot, sar_id, msg_id,
                   msg_writer_receiver, stdout, writer_pc, writer_result, dispatched,
                   delivered, rpc_returned, nodeVars, clusterVars, newVars, counterVars>>

\* the fault a callback returns, with the context the app task adds (182, 192, 195)
Fault(ctx) == IF ctx = "handle" THEN ErrHandle ELSE ErrTick

\* reply_to (41-57) and send_to (59-75) called by the running callback
AppEmit(envelope) ==
    /\ Running
    /\ app_pc = "run"
    /\ ops_left > 0
    /\ msg_id < MaxMsgId
    /\ msg_id' = FetchAdd(msg_id)
    /\ ops_left' = ops_left - 1
    /\ IF WriterAlive
       THEN /\ msg_writer_receiver' =
                  WriteMessage(msg_writer_receiver, envelope)
            /\ UNCHANGED <<app_pc, app_result>>
       ELSE \* the callback returns the writer's error with `?`
            /\ app_pc' = "finished"
            /\ app_result' = Fault(app_ctx)
            /\ UNCHANGED msg_writer_receiver
    /\ UNCHANGED <<stdin_open, stdin_log, message_receiver, main_pc, main_line, result,
                   response_callback_receiver, response_callbacks, oneshot,
                   app_message_receiver, app_ctx, app_message, sar_id, stdout, writer_pc,
                   writer_result, dispatched, handled, delivered, rpc_returned, nodeVars,
                   clusterVars, newVars, counterVars>>

AppReplyTo ==
    /\ app_ctx = "handle"
    /\ AppEmit(ReplyEnvelope(stdin_log[app_message], msg_id, "reply"))

AppSendTo == \E dst \in Dsts : AppEmit(Envelope(msg_id, NoId, dst, "send"))

\* send_and_receive: fetch_add and the registration of the oneshot sender (85-89)
AppSarRegister ==
    /\ Running
    /\ app_pc = "run"
    /\ ops_left > 0
    /\ msg_id < MaxMsgId
    /\ msg_id' = FetchAdd(msg_id)
    /\ ops_left' = ops_left - 1
    /\ sar_id' = msg_id
    /\ response_callback_receiver' = Append(response_callback_receiver, msg_id)
    /\ app_pc' = "sar_write"
    /\ UNCHANGED <<stdin_open, stdin_log, message_receiver, main_pc, main_line, result,
                   response_callbacks, oneshot, app_message_receiver, app_ctx, app_message,
                   app_result, msg_writer_receiver, stdout, writer_pc, writer_result,
                   dispatched, handled, delivered, rpc_returned, nodeVars, clusterVars, newVars, counterVars>>

\* send_and_receive: write_message (90-98)
AppSarWrite ==
    /\ Running
    /\ app_pc = "sar_write"
    /\ IF WriterAlive
       THEN /\ msg_writer_receiver' =
                  WriteMessage(msg_writer_receiver, Envelope(sar_id, NoId, "seq-kv", "rpc"))
            /\ app_pc' = "sar_wait"
            /\ UNCHANGED app_result
       ELSE /\ app_pc' = "finished"
            /\ app_result' = Fault(app_ctx)
            /\ UNCHANGED msg_writer_receiver
    /\ UNCHANGED <<stdin_open, stdin_log, message_receiver, main_pc, main_line, result,
                   response_callback_receiver, response_callbacks, oneshot,
                   app_message_receiver, app_ctx, app_message, ops_left, sar_id, msg_id,
                   stdout, writer_pc, writer_result, dispatched, handled, delivered,
                   rpc_returned, nodeVars, clusterVars, newVars, counterVars>>

\* send_and_receive: receiver.await yields the delivered envelope (99-100)
AppSarReceive ==
    /\ Running
    /\ app_pc = "sar_wait"
    /\ oneshot /= NoLine
    /\ rpc_returned' = rpc_returned \cup {<<sar_id, oneshot>>}
    /\ oneshot' = NoLine
    /\ sar_id' = NoId
    /\ app_pc' = "run"
    /\ UNCHANGED <<stdin_open, stdin_log, message_receiver, main_pc, main_line, result,
                   response_callback_receiver, response_callbacks, app_message_receiver,
                   app_ctx, app_message, app_result, ops_left, msg_id, msg_writer_receiver,
                   stdout, writer_pc, writer_result, dispatched, handled, delivered,
                   nodeVars, clusterVars, newVars, counterVars>>

\* the callback returns; after handle, tick runs when last_tick is old enough (190-197)
AppReturn ==
    /\ Running
    /\ app_pc = "run"
    /\ \E fault \in BOOLEAN, due \in BOOLEAN :
          IF fault
          THEN /\ app_pc' = "finished"
               /\ app_result' = Fault(app_ctx)
               /\ UNCHANGED <<app_ctx, ops_left>>
          ELSE IF app_ctx = "handle" /\ due
          THEN /\ app_ctx' = "tick"
               /\ ops_left' = MaxOps
               /\ UNCHANGED <<app_pc, app_result>>
          ELSE /\ app_pc' = "idle"
               /\ app_ctx' = "none"
               /\ ops_left' = 0
               /\ UNCHANGED app_result
    /\ app_message' = NoLine
    /\ UNCHANGED <<stdin_open, stdin_log, message_receiver, main_pc, main_line, result,
                   response_callback_receiver, response_callbacks, oneshot,
                   app_message_receiver, sar_id, msg_id, msg_writer_receiver, stdout,
                   writer_pc, writer_result, dispatched, handled, delivered, rpc_returned,
                   nodeVars, clusterVars, newVars, counterVars>>

(***************************************************************************)
(* The writer task (app.rs 144-156).                                       *)
(***************************************************************************)
\* the MessageWriter moved into the app task is the only msg_sender
WriterSenderDropped == app_pc = "finished"

WriterWrite ==
    /\ Running
    /\ writer_pc = "running"
    /\ msg_writer_receiver /= <<>>
    /\ stdout' = Append(stdout, Head(msg_writer_receiver))
    /\ msg_writer_receiver' = Tail(msg_writer_receiver)
    /\ UNCHANGED <<stdin_open, stdin_log, message_receiver, main_pc, main_line, result,
                   response_callback_receiver, response_callbacks, oneshot,
                   app_message_receiver, app_pc, app_ctx, app_message, app_result,
                   ops_left, sar_id, msg_id, writer_pc, writer_result, dispatched, handled,
                   delivered, rpc_returned, nodeVars, clusterVars, newVars, counterVars>>

\* write_all or flush fails: the task returns the error and drops its receiver
WriterFail ==
    /\ Running
    /\ writer_pc = "running"
    /\ msg_writer_receiver /= <<>>
    /\ writer_pc' = "finished"
    /\ writer_result' = ErrStdout
    /\ msg_writer_receiver' = <<>>
    /\ UNCHANGED <<stdin_open, stdin_log, message_receiver, main_pc, main_line, result,
                   response_callback_receiver, response_callbacks, oneshot,
                   app_message_receiver, app_pc, app_ctx, app_message, app_result,
                   ops_left, sar_id, msg_id, stdout, dispatched, handled, delivered,
                   rpc_returned, nodeVars, clusterVars, newVars, counterVars>>

\* recv() returns None: every sender is dropped and the channel is empty
WriterEnd ==
    /\ Running
    /\ writer_pc = "running"
    /\ msg_writer_receiver = <<>>
    /\ WriterSenderDropped
    /\ writer_pc' = "finished"
    /\ writer_result' = Ok
    /\ UNCHANGED <<stdin_open, stdin_log, message_receiver, main_pc, main_line, result,
                   response_callback_receiver, response_callbacks, oneshot,
                   app_message_receiver, app_pc, app_ctx, app_message, app_result,
                   ops_left, sar_id, msg_id, msg_writer_receiver, stdout, dispatched,
                   handled, delivered, rpc_returned, nodeVars, clusterVars, newVars, counterVars>>

(***************************************************************************)
(* The runtime's specification.                                            *)
(***************************************************************************)
NodePinned == bnode = <<>> /\ bhist = <<>>
ClusterPinned == cluster = <<>> /\ wire = {} /\ env = <<>>
NewPinned == init = <<>> /\ app = <<>>
CounterPinned == kv = <<>> /\ counters = <<>> /\ adds = <<>>

RuntimeNext ==
    \/ StdinLine
    \/ StdinEof
    \/ EventLoopInit
    \/ EventLoopRecv
    \/ EventLoopRoute
    \/ EventLoopAwait
    \/ AppWait
    \/ AppReplyTo
    \/ AppSendTo
    \/ AppSarRegister
    \/ AppSarWrite
    \/ AppSarReceive
    \/ AppReturn
    \/ WriterWrite
    \/ WriterFail
    \/ WriterEnd

RuntimeStart == RuntimeInit /\ NodePinned /\ ClusterPinned /\ NewPinned /\ CounterPinned

RuntimeSpec == RuntimeStart /\ [][RuntimeNext]_vars

\* the tokio runtime keeps scheduling event_loop and the two spawned tasks;
\* the harness (StdinLine, StdinEof, WriterFail) owes the node nothing
RuntimeFair ==
    /\ WF_vars(EventLoopInit \/ EventLoopRecv \/ EventLoopRoute \/ EventLoopAwait)
    /\ WF_vars(AppWait \/ AppReplyTo \/ AppSendTo \/ AppSarRegister \/ AppSarWrite
                 \/ AppSarReceive \/ AppReturn)
    /\ WF_vars(WriterWrite \/ WriterEnd)

RuntimeFairSpec == RuntimeSpec /\ RuntimeFair

(***************************************************************************)
(* Claims about the runtime.                                               *)
(***************************************************************************)
\* every envelope submitted for output, written or still queued
Submitted == stdout \o msg_writer_receiver

\* C3: the msg_id values on the output stream, in output order, are 0, 1, 2, ...
\* (strictly increasing from 0), whichever of reply_to, send_to and
\* send_and_receive produced them, and the counter has advanced exactly once for
\* each envelope submitted (once more while a send_and_receive holds an identifier
\* it has not written yet).
C3_MonotoneMsgIds ==
    /\ \A i \in 1..Len(stdout) : stdout[i].msg_id = i - 1
    /\ \A i \in 1..Len(Submitted) : Submitted[i].msg_id = i - 1
    /\ WriterAlive => msg_id = Len(Submitted) + (IF app_pc = "sar_write" THEN 1 ELSE 0)

C3_Witness ==
    /\ Len(stdout) = 3
    /\ {stdout[i].kind : i \in 1..3} = {"init_ok", "reply", "rpc"}

\* message ids of the send_and_receive calls whose request reached stdout
RpcIds == {stdout[i].msg_id : i \in {j \in 1..Len(stdout) : stdout[j].kind = "rpc"}}

\* C4: a send_and_receive that emitted msg_id k returns the first inbound line
\* whose in_reply_to is k; that line is never dispatched to handle; every earlier
\* line after init that answered no waiting caller was dispatched to handle; and a
\* line answering an RPC reaches handle only when an earlier line already answered
\* it (the caller is registered before its response is looked up).
C4_RpcMatching ==
    /\ \A r \in rpc_returned :
          /\ stdin_log[r[2]].in_reply_to = r[1]
          /\ \A j \in 1..(r[2] - 1) : stdin_log[j].in_reply_to /= r[1]
          /\ r[2] \notin Range(dispatched)
          /\ \A j \in 2..(r[2] - 1) :
                j \in Range(dispatched) \/ \E d \in delivered : d[2] = j
    /\ \A i \in 1..Len(dispatched) :
          stdin_log[dispatched[i]].in_reply_to \in RpcIds
             => \E d \in delivered : /\ d[1] = stdin_log[dispatched[i]].in_reply_to
                                     /\ d[2] < dispatched[i]

\* the response is the third line, and the line before it went to handle
C4_Witness ==
    \E r \in rpc_returned : r[2] = 3 /\ 2 \in Range(handled)

\* a fault of the run: event_loop, the app task or the writer task failed
FaultOccurred ==
    \/ result \notin {"none", Ok}
    \/ app_result \notin {"none", Ok}
    \/ writer_result \notin {"none", Ok}

\* C5: once stdin has reached end-of-input, the runtime terminates with success
\* unless a fault occurs.
C5_CleanShutdown ==
    (~stdin_open) ~> ((main_pc = "returned" /\ result = Ok) \/ FaultOccurred)

\* C6: a send_and_receive still awaiting its response when the routing loop has
\* ended on end-of-input does not wait forever.
C6_WaiterFails ==
    (main_pc = "await_app" /\ app_pc = "sar_wait" /\ oneshot = NoLine)
        ~> (app_pc /= "sar_wait")

\* C7: an envelope whose payload is no variant of the application's payload type
\* does not end the app task's loop.
C7_UnknownPayloadIgnored == app_result /= ErrPayload

\* C8: when handle or tick has returned a fault and no line was malformed, what
\* event_loop returns is that fault.
C8_FaultPropagates ==
    (/\ main_pc = "returned"
     /\ app_result \in {ErrHandle, ErrTick}
     /\ \A i \in 1..Len(stdin_log) : stdin_log[i].kind /= "garbage")
        => result = app_result

(***************************************************************************)
(* Broadcast application: broadcast/src/main.rs                            *)
(*                                                                         *)
(* A node identifier is <<prefix, number>>: <<"n", 3>> is n3, <<"c", 1>>   *)
(* is the client c1.  An Instant is kept as its age in milliseconds,       *)
(* capped where the code no longer tells ages apart.                       *)
(***************************************************************************)
\* values a client may broadcast: 1..MaxValue
MaxValue == 2
\* envelopes one broadcast node emits in a run (msg_id stays below it)
MaxNodeMsgId == 4

Values == 1..MaxValue

\* Duration::from_millis(100) of the coalescing window, (500) of the resend timer
BatchMs == 100
ResendMs == 500
\* the clock advances in steps of one coalescing window
Quantum == BatchMs

Server(i) == <<"n", i>>
Client(i) == <<"c", i>>

\* NodeID::is_client, NodeID::is_server (protocol.rs 51-61)
IsClient(id) == id[1] = "c"
IsServer(id) == id[1] = "n"

Min(a, b) == IF a < b THEN a ELSE b

\* position of the first element of s satisfying membership in set, or 0
RECURSIVE Position(_, _, _)
Position(s, x, i) ==
    IF i > Len(s) THEN 0 ELSE IF s[i] = x THEN i ELSE Position(s, x, i + 1)

\* slice::chunks(size): the slices of `size` elements, the last one shorter
\* when size does not divide the length; chunks(0) panics
Chunks(s, size) ==
    [i \in 1..((Len(s) + size - 1) \div size) |->
        SubSeq(s, (i - 1) * size + 1, Min(i * size, Len(s)))]

\* a neighbor list that keeps the node itself
WithSelf(s, x) == s

\* .iter().filter(|n| *n != &node_id).cloned().collect()
RECURSIVE Without(_, _)
Without(s, x) ==
    IF s = <<>> THEN <<>>
    ELSE IF Head(s) = x THEN Without(Tail(s), x)
    ELSE <<Head(s)>> \o Without(Tail(s), x)

\* index of the first chunk that contains node_id, or 0
RECURSIVE ChunkPosition(_, _, _)
ChunkPosition(chunks, x, i) ==
    IF i > Len(chunks) THEN 0
    ELSE IF Position(chunks[i], x, 1) /= 0 THEN i
    ELSE ChunkPosition(chunks, x, i + 1)

\* node_ids.len() / 5 (108): the divisor of the chunk size, and the smallest
\* cluster Broadcast::new accepts
ChunkCount == 5

\* the thread panicked: chunks(0), or the panic! of line 110
Panic == [panicked |-> TRUE]

\* Broadcast::new (107-134); Panic when chunks(0) or the position lookup panics
New(node_id, node_ids) ==
    IF Len(node_ids) \div ChunkCount = 0 THEN Panic
    ELSE LET chunks == Chunks(node_ids, Len(node_ids) \div ChunkCount)
             chunk_index == ChunkPosition(chunks, node_id, 1)
         IN  IF chunk_index = 0 THEN Panic
             ELSE LET chunk == chunks[chunk_index]
                      index_in_chunk == Position(chunk, node_id, 1)
                      leader == index_in_chunk = 1
                      neighbors == IF leader
                                   THEN chunks[(chunk_index % Len(chunks)) + 1]
                                   ELSE chunk
                  IN  [node_id |-> node_id,
                       messages_seen |-> {},
                       neighbor_messages_not_acked |-> [k \in {} |-> k],
                       neighbors |-> Without(neighbors, node_id),
                       always_broadcast |-> leader,
                       batched_sends_to_neighbors |-> [k \in {} |-> k],
                       msg_id |-> 0,
                       out |-> <<>>]

\* payloads (BroadcastPayload, 10-27)
Broadcast(m) == [type |-> "broadcast", message |-> m]
BroadcastOk == [type |-> "broadcast_ok"]
BroadcastBatched(ms) == [type |-> "broadcast_batched", messages |-> ms]
BroadcastBatchedOk == [type |-> "broadcast_batched_ok"]
Read == [type |-> "read"]
ReadOk(ms) == [type |-> "read_ok", messages |-> ms]
Topology(topology) == [type |-> "topology", topology |-> topology]
TopologyOk == [type |-> "topology_ok"]

Message(src, dst, id, irt, payload) ==
    [src |-> src, dst |-> dst, msg_id |-> id, in_reply_to |-> irt, payload |-> payload]

\* a send_to that hands out the counter's value without advancing it
SendToStale(st, dst, payload) ==
    [st EXCEPT !.out = Append(@, Message(st.node_id, dst, st.msg_id, NoId, payload))]

\* MessageWriter::send_to and reply_to (app.rs 41-75) on the node's writer
SendTo(st, dst, payload) ==
    [st EXCEPT !.msg_id = FetchAdd(@),
               !.out = Append(@, Message(st.node_id, dst, st.msg_id, NoId, payload))]

ReplyTo(st, received, payload) ==
    [st EXCEPT !.msg_id = FetchAdd(@),
               !.out = Append(@, Message(st.node_id, received.src, st.msg_id,
                                         received.msg_id, payload))]

\* a HashMap entry: the map with key -> value set, whatever it held before
Insert(map, key, value) == (key :> value) @@ map
Remove(map, key) == [k \in DOMAIN map \ {key} |-> map[k]]

\* Broadcast::prepare_send_to_neighbor (46-52)
PrepareSendToNeighbor(st, neighbor, message) ==
    LET pending == st.batched_sends_to_neighbors
        entry == IF neighbor \in DOMAIN pending
                 THEN pending[neighbor]
                 ELSE [age |-> 0, messages |-> <<>>]
    IN  [st EXCEPT !.batched_sends_to_neighbors =
            Insert(pending, neighbor, [entry EXCEPT !.messages = Append(@, message)])]

\* Broadcast::batched_send_to_neighbor (54-85); the entry of the inner map
\* is keyed here by <<neighbor, messages>>
KeepMessageId(st, neighbor, messages) ==
    LET sent == SendTo(st, neighbor, BroadcastBatched(messages))
        key == <<neighbor, messages>>
        old == st.neighbor_messages_not_acked
    IN  [sent EXCEPT !.neighbor_messages_not_acked =
            Insert(@, key, [message_id |-> IF key \in DOMAIN old THEN old[key].message_id
                                           ELSE st.msg_id,
                            age |-> 0])]

\* a send that records no entry to wait for the acknowledgement
SendWithoutRecord(st, neighbor, messages) ==
    SendTo(st, neighbor, BroadcastBatched(messages))

BatchedSendToNeighbor(st, neighbor, messages) ==
    LET sent == SendTo(st, neighbor, BroadcastBatched(messages))
    IN  [sent EXCEPT !.neighbor_messages_not_acked =
            Insert(@, <<neighbor, messages>>, [message_id |-> st.msg_id, age |-> 0])]

\* for neighbor in self.neighbors.clone() { prepare_send_to_neighbor } (97-99)
RECURSIVE PrepareAll(_, _, _)
PrepareAll(st, neighbors, message) ==
    IF neighbors = <<>> THEN st
    ELSE PrepareAll(PrepareSendToNeighbor(st, Head(neighbors), message),
                    Tail(neighbors), message)

\* handle_message forwarding only what a client sent
HandleMessageFromClients(st, message, message_to_broadcast) ==
    LET inserted == message_to_broadcast \notin st.messages_seen
        seen == [st EXCEPT !.messages_seen = @ \cup {message_to_broadcast}]
    IN  IF inserted /\ IsClient(message.src)
        THEN PrepareAll(seen, st.neighbors, message_to_broadcast)
        ELSE seen

\* handle_message enqueueing a value whether or not it was newly seen
HandleMessageAlways(st, message, message_to_broadcast) ==
    LET seen == [st EXCEPT !.messages_seen = @ \cup {message_to_broadcast}]
    IN  IF IsClient(message.src) \/ st.always_broadcast
        THEN PrepareAll(seen, st.neighbors, message_to_broadcast)
        ELSE seen

\* handle_message that forwards a value without recording it as seen
HandleMessageForgetful(st, message, message_to_broadcast) ==
    IF IsClient(message.src) \/ st.always_broadcast
    THEN PrepareAll(st, st.neighbors, message_to_broadcast)
    ELSE st

\* Broadcast::handle_message (87-101)
HandleMessage(st, message, message_to_broadcast) ==
    LET inserted == message_to_broadcast \notin st.messages_seen
        seen == [st EXCEPT !.messages_seen = @ \cup {message_to_broadcast}]
    IN  IF inserted /\ (IsClient(message.src) \/ st.always_broadcast)
        THEN PrepareAll(seen, st.neighbors, message_to_broadcast)
        ELSE seen

RECURSIVE HandleMessages(_, _, _)
HandleMessages(st, message, ms) ==
    IF ms = <<>> THEN st
    ELSE HandleMessages(HandleMessage(st, message, Head(ms)), message, Tail(ms))

\* a lookup that takes any entry of message.src, whatever id it stores
AckMatchesAnyId(st, message) ==
    {key \in DOMAIN st.neighbor_messages_not_acked : key[1] = message.src}

\* the entries of message.src whose stored message_id is in_reply_to (166-171)
AckMatches(st, message) ==
    {key \in DOMAIN st.neighbor_messages_not_acked :
        /\ key[1] = message.src
        /\ message.in_reply_to = st.neighbor_messages_not_acked[key].message_id}

\* a handler that takes its neighbors from the topology it is sent
AdoptTopology(st, message) ==
    LET topology == message.payload.topology IN
    ReplyTo([st EXCEPT !.neighbors = IF st.node_id \in DOMAIN topology
                                     THEN topology[st.node_id] ELSE @],
            message, TopologyOk)

\* BroadcastPayload::Topology { topology: _ } (187-190)
HandleTopology(st, message) == ReplyTo(st, message, TopologyOk)

\* Broadcast::handle (136-198)
Handle(st, message) ==
    LET type == message.payload.type IN
    CASE type = "broadcast" ->
            ReplyTo(HandleMessage(st, message, message.payload.message), message, BroadcastOk)
      [] type = "broadcast_batched" ->
            ReplyTo(HandleMessages(st, message, message.payload.messages), message,
                    BroadcastBatchedOk)
      [] type = "broadcast_batched_ok" ->
            LET found == AckMatches(st, message) IN
            IF found = {} THEN st
            ELSE [st EXCEPT !.neighbor_messages_not_acked =
                     Remove(@, CHOOSE key \in found : TRUE)]
      [] type = "read" -> ReplyTo(st, message, ReadOk(st.messages_seen))
      [] type = "topology" -> HandleTopology(st, message)
      [] OTHER -> st

(***************************************************************************)
(* Broadcast::tick (200-227).  A HashMap is iterated in an order the code  *)
(* does not control: the flush loop and the resend loop each take an order *)
(* of the entries they visit.                                              *)
(***************************************************************************)
Perms(S) == {s \in [1..Cardinality(S) -> S] : Range(s) = S}

\* start_time.elapsed() < Duration::from_millis(100) is false (203)
FlushDueAtOnce(age) == TRUE
FlushDue(age) == age >= BatchMs

\* ack_context.time_sent.elapsed() >= Duration::from_millis(500) (218)
ResendDueEarly(age) == age >= BatchMs
ResendDue(age) == age >= ResendMs

\* neighbors whose pending batch the flush loop sends
Ripe(st) ==
    {n \in DOMAIN st.batched_sends_to_neighbors :
        FlushDue(st.batched_sends_to_neighbors[n].age)}

\* a resend loop that collects nothing
OverdueNever(st) == {}

\* entries the resend loop collects
Overdue(st) ==
    {key \in DOMAIN st.neighbor_messages_not_acked :
        ResendDue(st.neighbor_messages_not_acked[key].age)}

\* for (neighbor, (start_time, messages)) in batched_sends.clone() (202-209)
RECURSIVE FlushLoop(_, _, _)
FlushLoop(st, pending, order) ==
    IF order = <<>> THEN st
    ELSE FlushLoop(BatchedSendToNeighbor(st, Head(order), pending[Head(order)].messages),
                   pending, Tail(order))

\* for key in keys_to_remove { batched_sends_to_neighbors.remove(&key) } (210-212)
RemoveKeys(map, keys) == [k \in DOMAIN map \ keys |-> map[k]]

\* for (neighbor, messages) in resend { batched_send_to_neighbor } (223-225)
RECURSIVE ResendLoop(_, _)
ResendLoop(st, order) ==
    IF order = <<>> THEN st
    ELSE ResendLoop(BatchedSendToNeighbor(st, Head(order)[1], Head(order)[2]), Tail(order))

Flushed(st, flush_order) ==
    [FlushLoop(st, st.batched_sends_to_neighbors, flush_order)
        EXCEPT !.batched_sends_to_neighbors = RemoveKeys(@, Range(flush_order))]

\* the states tick may leave the node in
Tick(st) ==
    UNION {{ResendLoop(Flushed(st, fo), ro) : ro \in Perms(Overdue(Flushed(st, fo)))} :
             fo \in Perms(Ripe(st))}

\* time passes: every Instant the node holds grows older
Older(age, d, cap) == Min(age + d, cap)

Elapse(st, d) ==
    [st EXCEPT
        !.batched_sends_to_neighbors =
            [n \in DOMAIN @ |-> [@[n] EXCEPT !.age = Older(@, d, BatchMs)]],
        !.neighbor_messages_not_acked =
            [key \in DOMAIN @ |-> [@[key] EXCEPT !.age = Older(@, d, ResendMs)]]]

(***************************************************************************)
(* One broadcast node under the runtime: its callbacks run one at a time   *)
(* (app.rs 173-198), each to completion, and the harness feeds it any      *)
(* envelope.  out holds what the last callback emitted; the writer task    *)
(* has written it by the next step.  For every unacknowledged batch bhist  *)
(* keeps the message ids it was emitted with and the time since its last   *)
(* emission, and for an acknowledgement just handled what it found.        *)
(***************************************************************************)
EmptyMap == [k \in {} |-> k]

\* the cluster of the single-node runs: eleven servers in chunks of two
NodeCount == 11
NodeIds == [i \in 1..NodeCount |-> Server(i)]
\* the modelled node: n9 leads a chunk, n10 is its member, n11 leads the short chunk
NodeChoices == {Server(9), Server(10), Server(11)}

\* the harness's own message id on inbound envelopes
InboundMsgId == MaxNodeMsgId + 1

\* the messages of an inbound broadcast_batched: one value, or two (also twice the same)
Batches == {<<m>> : m \in Values} \cup {<<m, n>> : m, n \in Values}

\* who sends the node requests and gossip: a client, and the leader of the chunk before
InputSrcs == {Client(1), Server(7)}

\* topologies the harness may send: none for the node, no neighbor, another one
Topologies(st) ==
    {[id \in {} |-> <<>>], [id \in {st.node_id} |-> <<>>], [id \in {st.node_id} |-> <<Server(1)>>]}

Inputs(st) ==
    {Message(src, st.node_id, InboundMsgId, NoId, p) :
        src \in InputSrcs,
        p \in {Broadcast(m) : m \in Values} \cup {BroadcastBatched(ms) : ms \in Batches}}
    \cup
    {Message(Client(1), st.node_id, InboundMsgId, NoId, p) :
        p \in {Read, BroadcastOk} \cup {Topology(topology) : topology \in Topologies(st)}}
    \cup
    {Message(src, st.node_id, InboundMsgId, irt, BroadcastBatchedOk) :
        src \in Range(st.neighbors), irt \in 0..(st.msg_id - 1)}

\* the writer task has written what the node emitted
Drained(st) == [st EXCEPT !.out = <<>>]

\* the broadcast_batched envelopes in out, as <<neighbor, messages>> -> message ids
EmittedKeys(out) ==
    {<<out[i].dst, out[i].payload.messages>> :
        i \in {j \in 1..Len(out) : out[j].payload.type = "broadcast_batched"}}

RECURSIVE EmittedIds(_, _)
EmittedIds(out, key) ==
    IF out = <<>> THEN <<>>
    ELSE (IF /\ Head(out).payload.type = "broadcast_batched"
             /\ <<Head(out).dst, Head(out).payload.messages>> = key
          THEN <<Head(out).msg_id>> ELSE <<>>) \o EmittedIds(Tail(out), key)

\* bhist after a callback took the node to next
Recorded(hist, next, last) ==
    LET keys == DOMAIN next.neighbor_messages_not_acked IN
    [since |-> [key \in keys |->
                   IF key \in EmittedKeys(next.out) \/ key \notin DOMAIN hist.since THEN 0
                   ELSE hist.since[key]],
     ids |-> [key \in keys |->
                   (IF key \in DOMAIN hist.ids THEN hist.ids[key] ELSE <<>>)
                      \o EmittedIds(next.out, key)],
     last |-> last]

NoInput == [type |-> "none"]

\* what an acknowledgement found: the ids of each batch of its sender that had
\* been emitted more than once (nothing is kept when there is no such batch)
AckSeen(hist, message) ==
    LET was == [key \in {k \in DOMAIN hist.ids : k[1] = message.src /\ Len(hist.ids[k]) >= 2}
                   |-> hist.ids[key]]
    IN  IF DOMAIN was = {} THEN NoInput
        ELSE [type |-> "ack", src |-> message.src,
              in_reply_to |-> message.in_reply_to, was |-> was]

NodeInit ==
    /\ bnode \in {New(id, NodeIds) : id \in NodeChoices}
    /\ bhist = [since |-> EmptyMap, ids |-> EmptyMap, last |-> NoInput]

NodeHandle(message) ==
    /\ Handle(bnode, message).msg_id <= MaxNodeMsgId
    /\ bnode' = Handle(Drained(bnode), message)
    /\ bhist' = Recorded(bhist, bnode',
                         IF message.payload.type = "broadcast_batched_ok"
                         THEN AckSeen(bhist, message) ELSE NoInput)
    /\ UNCHANGED <<rtVars, clusterVars, newVars, counterVars>>

NodeInput == \E message \in Inputs(bnode) : NodeHandle(message)

NodeTick ==
    /\ \E next \in Tick(Drained(bnode)) :
          /\ next.msg_id <= MaxNodeMsgId
          /\ bnode' = next
          /\ bhist' = Recorded(bhist, next, NoInput)
    /\ UNCHANGED <<rtVars, clusterVars, newVars, counterVars>>

NodeElapse ==
    /\ bnode' = Elapse(Drained(bnode), Quantum)
    /\ bhist' = [bhist EXCEPT !.since = [key \in DOMAIN @ |-> Older(@[key], Quantum, ResendMs)],
                              !.last = NoInput]
    /\ UNCHANGED <<rtVars, clusterVars, newVars, counterVars>>

RuntimePinned == RuntimeInit

NodeStart == NodeInit /\ RuntimePinned /\ ClusterPinned /\ NewPinned /\ CounterPinned

NodeNext == NodeInput \/ NodeTick \/ NodeElapse

NodeSpec == NodeStart /\ [][NodeNext]_vars

\* the app task keeps ticking (app.rs 180-197) and time passes
NodeFair == WF_vars(NodeTick) /\ WF_vars(NodeElapse)

NodeFairSpec == NodeSpec /\ NodeFair

(***************************************************************************)
(* Claims about one broadcast node.                                        *)
(***************************************************************************)
NotAcked == DOMAIN bnode.neighbor_messages_not_acked

Last(s) == s[Len(s)]

\* batches of the acknowledging neighbor that had been emitted and re-emitted
\* when the acknowledgement just handled arrived
ReEmitted == DOMAIN bhist.last.was

\* C9 as stated: after a batch was emitted and re-emitted with a new msg_id, a
\* broadcast_batched_ok from that neighbor whose in_reply_to is either of the
\* emitted msg_id values clears the unacked entry of the batch.
C9_EitherIdClears ==
    bhist.last.type = "ack" =>
        \A key \in ReEmitted :
            bhist.last.in_reply_to \in Range(bhist.last.was[key]) => key \notin NotAcked

\* C9 amended: such an acknowledgement clears the entry exactly when its
\* in_reply_to is the msg_id of the latest emission of the batch; one that
\* carries an earlier msg_id of the batch leaves the entry in place.
C9_LatestIdClears ==
    bhist.last.type = "ack" =>
        \A key \in ReEmitted :
            (bhist.last.in_reply_to = Last(bhist.last.was[key])) <=> (key \notin NotAcked)

C9_Witness ==
    /\ bhist.last.type = "ack"
    /\ \E key \in ReEmitted :
          /\ bhist.last.in_reply_to = Last(bhist.last.was[key])
          /\ key \notin NotAcked

\* an unacknowledged batch whose last emission is at least 500 ms old
Unsent == \E key \in NotAcked : bhist.since[key] >= ResendMs

\* the run has reached the bound on emissions: tick no longer fits under it
Exhausted == \A next \in Tick(Drained(bnode)) : next.msg_id > MaxNodeMsgId

\* C10: a step that emits an unacknowledged batch again (same neighbor, same
\* ordered values) comes at least 500 ms after the previous emission of it, and
\* while ticks keep running every batch that has stayed unacknowledged for 500 ms
\* is emitted again (until the run reaches its bound on emissions).
C10_Retransmission ==
    /\ [][\A key \in NotAcked :
            key \in EmittedKeys(bnode'.out) => bhist.since[key] >= ResendMs]_vars
    /\ []<>(~Unsent \/ Exhausted)

\* a batch emitted three times: flushed, then resent twice
C10_Witness == \E key \in NotAcked : Len(bhist.ids[key]) >= 3

(***************************************************************************)
(* A cluster of broadcast nodes.  Every node runs Handle and Tick as       *)
(* above; what a callback emits to a server goes on the wire, replies to   *)
(* clients leave the model.  The harness delivers a server-to-server       *)
(* envelope within two clock steps of its emission, unless it drops it.    *)
(***************************************************************************)
\* broadcast requests the clients make in a run: on the lossless wire to a
\* cluster of one node per chunk and to one of two nodes per chunk, and on the
\* lossy wire
MaxRequests == 2
MaxChunkedRequests == 1
LossyRequests == 1
\* envelopes the lossy wire drops, and envelopes it delivers twice, in a run
MaxDrops == 1
MaxDups == 1

\* the node_ids of the init message of a cluster of count servers
ClusterIds(count) == [i \in 1..count |-> Server(i)]
Servers == DOMAIN cluster

\* clusters and request budgets of the runs, as <<servers, requests>>
ClusterRuns == {<<ChunkCount, MaxRequests>>, <<2 * ChunkCount, MaxChunkedRequests>>}
LossyRuns == {<<ChunkCount, LossyRequests>>}

ClusterInit(runs) ==
    \E run \in runs :
        LET node_ids == ClusterIds(run[1]) IN
        /\ cluster = [id \in Range(node_ids) |-> New(id, node_ids)]
        /\ wire = {}
        /\ env = [node_ids |-> node_ids, limit |-> run[2], accepted |-> {},
                  requests |-> 0, drops |-> 0, dups |-> 0]

\* the envelopes a callback emitted to servers, as fresh entries of the wire
OnWire(out) ==
    {[message |-> out[i], age |-> 0] : i \in {j \in 1..Len(out) : IsServer(out[j].dst)}}

\* node id runs a callback that leaves it in state next
Ran(id, next, rest) ==
    /\ cluster' = [cluster EXCEPT ![id] = Drained(next)]
    /\ wire' = rest \cup OnWire(next.out)

\* the servers the next request may go to: the ring of chunks looks the same
\* from each of its chunks, so the first request goes to the first chunk
Targets ==
    IF env.requests = 0
    THEN {env.node_ids[i] : i \in 1..(Len(env.node_ids) \div ChunkCount)}
    ELSE Servers

\* a client asks server id to broadcast m
ClientBroadcast ==
    /\ env.requests < env.limit
    /\ \E id \in Targets, m \in Values :
          /\ Ran(id, Handle(cluster[id],
                            Message(Client(1), id, env.requests, NoId, Broadcast(m))), wire)
          /\ env' = [env EXCEPT !.requests = @ + 1, !.accepted = @ \cup {m}]
    /\ UNCHANGED <<rtVars, nodeVars, newVars, counterVars>>

\* the harness delivers an envelope: its destination handles it
Deliver ==
    /\ \E w \in wire :
          Ran(w.message.dst, Handle(cluster[w.message.dst], w.message), wire \ {w})
    /\ UNCHANGED <<env, rtVars, nodeVars, newVars, counterVars>>

\* a node's app task runs tick
ClusterTick ==
    /\ \E id \in Servers : \E next \in Tick(cluster[id]) : Ran(id, next, wire)
    /\ UNCHANGED <<env, rtVars, nodeVars, newVars, counterVars>>

\* time passes, once what was in flight a step ago has been delivered or dropped
ClusterElapse ==
    /\ \A w \in wire : w.age = 0
    /\ cluster' = [id \in Servers |-> Elapse(cluster[id], Quantum)]
    /\ wire' = {[w EXCEPT !.age = Quantum] : w \in wire}
    /\ UNCHANGED <<env, rtVars, nodeVars, newVars, counterVars>>

\* the lossy wire drops an envelope
Drop ==
    /\ env.drops < MaxDrops
    /\ \E w \in wire : wire' = wire \ {w}
    /\ env' = [env EXCEPT !.drops = @ + 1]
    /\ UNCHANGED <<cluster, rtVars, nodeVars, newVars, counterVars>>

\* the lossy wire delivers an envelope and keeps a copy in flight
Duplicate ==
    /\ env.dups < MaxDups
    /\ \E w \in wire :
          Ran(w.message.dst, Handle(cluster[w.message.dst], w.message), wire)
    /\ env' = [env EXCEPT !.dups = @ + 1]
    /\ UNCHANGED <<rtVars, nodeVars, newVars, counterVars>>

ClusterStart == ClusterInit(ClusterRuns) /\ RuntimePinned /\ NodePinned /\ NewPinned /\ CounterPinned

LossyStart == ClusterInit(LossyRuns) /\ RuntimePinned /\ NodePinned /\ NewPinned /\ CounterPinned

ClusterNext == ClientBroadcast \/ Deliver \/ ClusterTick \/ ClusterElapse

LossyNext == ClusterNext \/ Drop \/ Duplicate

\* the harness delivers every message, ticks keep firing, time passes
ClusterFair == WF_vars(Deliver) /\ WF_vars(ClusterTick) /\ WF_vars(ClusterElapse)

ClusterSpec == ClusterStart /\ [][ClusterNext]_vars /\ ClusterFair

LossySpec == LossyStart /\ [][LossyNext]_vars /\ ClusterFair

(***************************************************************************)
(* Claims about the cluster.                                               *)
(***************************************************************************)
\* what a read on node id returns: the messages of its read_ok reply
ReadResult(id) ==
    Last(Handle(cluster[id], Message(Client(1), id, 0, NoId, Read)).out).payload.messages

\* C1: with a lossless harness and ticks firing, after the clients' broadcast
\* requests a state is reached and kept in which a read on every server returns
\* exactly the set of the values broadcast.
C1_Convergence == <>[](\A id \in Servers : ReadResult(id) = env.accepted)

\* every request was made, to more than one node, and every server has every value
C1_Witness ==
    /\ env.requests = MaxRequests
    /\ env.accepted = Values
    /\ \A id \in Servers : ReadResult(id) = Values

\* C2: on a wire that drops and duplicates envelopes (finitely often), every
\* value a node accepted from a client ends up in messages_seen of every server.
C2_LossyConvergence ==
    \A m \in Values :
        (m \in env.accepted) ~> (\A id \in Servers : m \in cluster[id].messages_seen)

\* an envelope was dropped, one was delivered twice, and the servers agree
C2_Witness ==
    /\ env.drops = MaxDrops
    /\ env.dups = MaxDups
    /\ env.accepted /= {}
    /\ \A id \in Servers : cluster[id].messages_seen = env.accepted

(***************************************************************************)
(* Further claims about one broadcast node.                                *)
(***************************************************************************)
\* the pending batch to neighbor n, as it stood before the step
Pending(n) == bnode.batched_sends_to_neighbors[n]

\* the envelope is the flush of a pending batch whose start_time is at least 100 ms old
FlushOfRipe(e) ==
    /\ e.dst \in DOMAIN bnode.batched_sends_to_neighbors
    /\ Pending(e.dst).messages = e.payload.messages
    /\ Pending(e.dst).age >= BatchMs

\* the envelope emits again a batch that has been unacknowledged for 500 ms
ResendOfOverdue(e) ==
    /\ <<e.dst, e.payload.messages>> \in NotAcked
    /\ bhist.since[<<e.dst, e.payload.messages>>] >= ResendMs

\* C11: every broadcast_batched envelope a step emits is the flush of a pending
\* batch whose first value was enqueued at least 100 ms earlier (or the resend
\* of a batch flushed before); handle emits none, tick flushes no younger batch.
C11_CoalescingBound ==
    [][\A i \in 1..Len(bnode'.out) :
          bnode'.out[i].payload.type = "broadcast_batched" =>
              FlushOfRipe(bnode'.out[i]) \/ ResendOfOverdue(bnode'.out[i])]_vars

\* a batch of two values, coalesced while pending, has just been flushed
C11_Witness ==
    \E key \in EmittedKeys(bnode.out) :
        /\ Len(key[2]) = 2
        /\ key \in NotAcked
        /\ Len(bhist.ids[key]) = 1

\* the broadcast_batched envelopes the harness may deliver to the node
BatchInputs == {message \in Inputs(bnode) : message.payload.type = "broadcast_batched"}

\* the node after handling the envelope, and after handling it a second time
Delivered(message) == Handle(Drained(bnode), message)
Redelivered(message) == Handle(Drained(Delivered(message)), message)

Count(s, x) == Cardinality({i \in 1..Len(s) : s[i] = x})

\* the values a step appended to the pending batch of neighbor n
Enqueued(n) ==
    LET new == bnode'.batched_sends_to_neighbors[n].messages
        old == IF n \in DOMAIN bnode.batched_sends_to_neighbors
               THEN Pending(n).messages ELSE <<>>
    IN  IF Len(new) >= Len(old) /\ SubSeq(new, 1, Len(old)) = old
        THEN SubSeq(new, Len(old) + 1, Len(new))
        ELSE new

\* C12: in every state, for every broadcast_batched envelope, a second delivery
\* changes neither messages_seen nor any pending batch, and however often a value
\* occurs in the envelope it is pending at most once per neighbor; in every step
\* a value is enqueued to a neighbor only when it was not in messages_seen
\* before, and once.
C12_Idempotence ==
    /\ [](\A message \in BatchInputs :
            /\ Redelivered(message).messages_seen = Delivered(message).messages_seen
            /\ Redelivered(message).batched_sends_to_neighbors
                   = Delivered(message).batched_sends_to_neighbors
            /\ \A n \in DOMAIN Delivered(message).batched_sends_to_neighbors, m \in Values :
                   Count(Delivered(message).batched_sends_to_neighbors[n].messages, m) <= 1)
    /\ [][/\ bnode.messages_seen \subseteq bnode'.messages_seen
          /\ \A n \in DOMAIN bnode'.batched_sends_to_neighbors, m \in Values :
                /\ Count(Enqueued(n), m) <= 1
                /\ Count(Enqueued(n), m) = 1 => m \notin bnode.messages_seen]_vars

\* a chunk leader has just answered a broadcast_batched from another server
\* and holds no pending batch: the envelope carried only values already seen
C12_Witness ==
    /\ bnode.always_broadcast
    /\ bnode.neighbors /= <<>>
    /\ Len(bnode.out) = 1
    /\ bnode.out[1].payload.type = "broadcast_batched_ok"
    /\ IsServer(bnode.out[1].dst)
    /\ bnode.messages_seen /= {}
    /\ DOMAIN bnode.batched_sends_to_neighbors = {}

(***************************************************************************)
(* Further claims about the runtime.                                       *)
(***************************************************************************)
\* lines after the init line that the routing loop has taken and routed
Routed ==
    {j \in 2..Len(stdin_log) : j \notin Range(message_receiver) /\ j /= main_line}

\* C13: the lines handle was invoked with are, in order, the first of the lines
\* sent to the app task; those are in arrival order; and while event_loop runs
\* every routed line that answered no waiting caller was sent to the app task.
C13_InputOrder ==
    /\ Len(handled) <= Len(dispatched)
    /\ handled = SubSeq(dispatched, 1, Len(handled))
    /\ \A i, j \in 1..Len(dispatched) : i < j => dispatched[i] < dispatched[j]
    /\ Running =>
          \A j \in Routed : j \in Range(dispatched) \/ \E d \in delivered : d[2] = j

\* handle starts on line 2 after a tick's send_and_receive returned with the
\* response on line 3: line 2 arrived while the app task was inside that tick
C13_Witness ==
    /\ app_pc = "run"
    /\ app_ctx = "handle"
    /\ ops_left = MaxOps
    /\ handled = <<2>>
    /\ \E r \in rpc_returned : r[2] = 3

\* every envelope the writer has been handed so far, in order
Emitted == stdout \o msg_writer_receiver

\* the envelope a step handed to the writer task
Written == Last(msg_writer_receiver')

\* C14: whenever reply_to hands an envelope to the writer (the init_ok of the
\* init line, or a reply of handle to the envelope it runs on), its src is this
\* node, its dst the received envelope's src, its in_reply_to the received
\* envelope's msg_id, its payload the one given, and its msg_id is carried by
\* no envelope emitted before.
C14_ReplyCorrelation ==
    [][(/\ Len(msg_writer_receiver') > Len(msg_writer_receiver)
        /\ Written.kind \in {"init_ok", "reply"})
       => LET received == stdin_log[IF Written.kind = "init_ok" THEN 1 ELSE app_message]
          IN  /\ Written.src = NodeId
              /\ Written.dst = received.src
              /\ Written.in_reply_to = received.msg_id
              /\ Written.kind = (IF app_pc = "run" THEN "reply" ELSE "init_ok")
              /\ \A i \in 1..Len(Emitted) : Emitted[i].msg_id /= Written.msg_id]_vars

\* handle has replied to line 2 and to line 3, after the init_ok
C14_Witness ==
    /\ Len(stdout) = 3
    /\ stdout[1].kind = "init_ok"
    /\ stdout[2].kind = "reply" /\ stdout[2].in_reply_to = 2
    /\ stdout[3].kind = "reply" /\ stdout[3].in_reply_to = 3

\* C15: the first envelope the node emits is init_ok, addressed to the sender
\* of init, with msg_id 0 and in_reply_to the msg_id of the init line; it has
\* been handed to the writer whenever the app task exists (so before any handle
\* or tick; it is in Emitted unless the writer task has failed since), and the
\* next envelope emitted, the first of the application, carries msg_id 1.
C15_InitHandshake ==
    /\ app_pc /= "not_spawned" => msg_id >= 1 /\ (Emitted /= <<>> \/ writer_pc = "finished")
    /\ app_pc = "not_spawned" => handled = <<>> /\ Emitted = <<>>
    /\ Emitted /= <<>> =>
          /\ Emitted[1].kind = "init_ok"
          /\ Emitted[1].dst = stdin_log[1].src
          /\ Emitted[1].msg_id = 0
          /\ Emitted[1].in_reply_to = stdin_log[1].msg_id
    /\ Len(Emitted) >= 2 => Emitted[2].msg_id = 1
    /\ \A i \in 2..Len(Emitted) : Emitted[i].kind /= "init_ok"

\* init_ok, then the reply of handle to line 2, are on stdout
C15_Witness ==
    /\ Len(stdout) >= 2
    /\ stdout[1].kind = "init_ok"
    /\ stdout[2].kind = "reply"
    /\ stdout[2].in_reply_to = 2
    /\ stdout[2].msg_id = 1

\* the node after handling the topology envelope of a client
AfterTopology(topology) ==
    Handle(Drained(bnode),
           Message(Client(1), bnode.node_id, InboundMsgId, NoId, Topology(topology)))

\* C16: in every state the neighbor list and always_broadcast are as new set
\* them, and handling a topology envelope, whatever it carries, changes none of
\* neighbors, always_broadcast, messages_seen, the pending batches and the
\* unacked entries, and emits exactly one topology_ok reply.
C16_TopologyStability ==
    /\ bnode.neighbors = New(bnode.node_id, NodeIds).neighbors
    /\ bnode.always_broadcast = New(bnode.node_id, NodeIds).always_broadcast
    /\ \A topology \in Topologies(bnode) :
          /\ AfterTopology(topology) =
                 [Drained(bnode) EXCEPT !.msg_id = AfterTopology(topology).msg_id,
                                        !.out = AfterTopology(topology).out]
          /\ AfterTopology(topology).out =
                 <<Message(bnode.node_id, Client(1), bnode.msg_id, InboundMsgId, TopologyOk)>>

\* a node with values seen, a pending batch and an unacked entry has just
\* answered a topology envelope
C16_Witness ==
    /\ Len(bnode.out) = 1
    /\ bnode.out[1].payload.type = "topology_ok"
    /\ bnode.messages_seen /= {}
    /\ DOMAIN bnode.batched_sends_to_neighbors /= {}
    /\ NotAcked /= {}

(***************************************************************************)
(* The construction of a broadcast node: event_loop takes node_id and      *)
(* node_ids from the init message and calls Broadcast::new (app.rs 139,    *)
(* 165), for every cluster size up to MaxClusterSize and every node of it. *)
(***************************************************************************)
\* servers of the largest cluster constructed
MaxClusterSize == 12

\* the application before TApp::new has run
NotBuilt == [built |-> FALSE]

NewInit ==
    /\ init \in {[node_id |-> Server(i), node_ids |-> ClusterIds(n)] :
                    n \in 1..MaxClusterSize, i \in 1..MaxClusterSize}
    /\ init.node_id \in Range(init.node_ids)
    /\ app = NotBuilt

\* let mut app = TApp::new(node_id.clone(), node_ids.clone())
AppNew ==
    /\ app = NotBuilt
    /\ app' = New(init.node_id, init.node_ids)
    /\ UNCHANGED <<init, rtVars, nodeVars, clusterVars, counterVars>>

NewStart == NewInit /\ RuntimePinned /\ NodePinned /\ ClusterPinned /\ CounterPinned

NewSpec == NewStart /\ [][AppNew]_vars

\* new has returned; it has panicked
Constructed == app \notin {NotBuilt, Panic}
Panicked == app = Panic

\* the chunks new cuts node_ids into (108)
NewChunks == Chunks(init.node_ids, Len(init.node_ids) \div ChunkCount)

RECURSIVE Concat(_, _)
Concat(chunks, i) == IF i > Len(chunks) THEN <<>> ELSE chunks[i] \o Concat(chunks, i + 1)

\* C17 as stated: for every non-empty node_ids that contains node_id, new
\* returns, having cut node_ids into exactly five contiguous chunks, the first
\* four of floor(|node_ids| / 5) nodes and the fifth with the remainder as well.
C17_FiveChunks ==
    app /= NotBuilt =>
        /\ ~Panicked
        /\ Len(NewChunks) = 5
        /\ \A i \in 1..4 : Len(NewChunks[i]) = Len(init.node_ids) \div 5
        /\ Concat(NewChunks, 1) = init.node_ids

\* the neighbors C18 assigns to the node at index i of node_ids, by index
\* arithmetic: chunk c holds the indices c * size + 1 .. (c + 1) * size
Assigned(node_ids, i) ==
    LET size == Len(node_ids) \div ChunkCount
        count == (Len(node_ids) + size - 1) \div size
        chunk == (i - 1) \div size
        leader == (i - 1) % size = 0
        target == IF leader THEN (chunk + 1) % count ELSE chunk
        indices == SelectSeq([j \in 1..Len(node_ids) |-> j],
                             LAMBDA j : (j - 1) \div size = target /\ j /= i)
    IN  [neighbors |-> [x \in 1..Len(indices) |-> node_ids[indices[x]]],
         always_broadcast |-> leader]

\* C18: when new returns, the node at index 0 of its chunk has as neighbors the
\* nodes of the next chunk in list order (the first chunk after the last) and
\* always_broadcast = true; any other node has the other nodes of its own chunk
\* and always_broadcast = false; the node itself is in neither list.
C18_NeighborAssignment ==
    Constructed =>
        LET assigned == Assigned(init.node_ids, Position(init.node_ids, init.node_id, 1)) IN
        /\ app.neighbors = assigned.neighbors
        /\ app.always_broadcast = assigned.always_broadcast
        /\ init.node_id \notin Range(app.neighbors)

\* of eleven nodes, the eleventh leads the last chunk and got the first chunk
C18_Witness ==
    /\ Constructed
    /\ init.node_id = Server(11)
    /\ Len(init.node_ids) = 11
    /\ app.neighbors = <<Server(1), Server(2)>>
    /\ app.always_broadcast

(***************************************************************************)
(* The Seq-KV client (maelstrom/src/app/services/seq_kv.rs) and the        *)
(* counter application (g-counter/src/main.rs).  A counter node's tick     *)
(* awaits the response of each request before it goes on, and handle runs  *)
(* only between ticks (app.rs 173-198).                                    *)
(***************************************************************************)
\* add requests of a run, and the largest delta
MaxAdds == 2
MaxDelta == 2

\* error codes of the service the client knows (seq_kv.rs 29, 73)
KeyDoesNotExist == 20
PreconditionFailed == 22
\* self.last_read_time.elapsed() >= Duration::from_millis(500) (main.rs 75)
RefreshMs == 500

\* KVPayload (seq_kv.rs 80-108): what the service may answer
KvReadOk(value) == [type |-> "read_ok", value |-> value]
KvWriteOk == [type |-> "write_ok"]
KvCompareAndSetOk == [type |-> "cas_ok"]
KvError(code) == [type |-> "error", code |-> code]
\* and what the client asks
KvReadRequest == [type |-> "read"]
KvCompareAndSet(from, to) == [type |-> "cas", from |-> from, to |-> to]

\* Result<Option<V>> and Result<bool>
KvFault == [fault |-> TRUE]
None == [some |-> FALSE]
Some(value) == [some |-> TRUE, value |-> value]
Swapped(flag) == [swapped |-> flag]

\* a read that takes every error for an absent key
SeqKvReadLenient(payload) ==
    IF payload.type = "error" THEN None
    ELSE IF payload.type = "read_ok" THEN Some(payload.value)
    ELSE KvFault

\* SeqKV::read (16-33): the match on response.body.payload
SeqKvRead(payload) ==
    IF payload.type = "error" /\ payload.code = KeyDoesNotExist THEN None
    ELSE IF payload.type = "read_ok" THEN Some(payload.value)
    ELSE KvFault

\* SeqKV::compare_and_swap (53-77): the match on response.body.payload
SeqKvCompareAndSwap(payload) ==
    IF payload.type = "error" /\ payload.code = PreconditionFailed THEN Swapped(FALSE)
    ELSE IF payload.type = "cas_ok" THEN Swapped(TRUE)
    ELSE KvFault

\* Option::unwrap_or_default
UnwrapOrDefault(option) == IF option.some THEN option.value ELSE 0

\* the service has no value under the key
NoValue == -1

\* a working service answers a request on the value it holds
KvAnswer(value, request) ==
    IF request.type = "read"
    THEN IF value = NoValue THEN KvError(KeyDoesNotExist) ELSE KvReadOk(value)
    ELSE IF value = NoValue \/ value = request.from
    THEN KvCompareAndSetOk
    ELSE KvError(PreconditionFailed)

\* and the value it holds afterwards (cas with create_if_not_exists, seq_kv.rs 67)
KvApply(value, request) ==
    IF request.type = "cas" /\ (value = NoValue \/ value = request.from)
    THEN request.to
    ELSE value

CounterNodes == {Server(1), Server(2)}
Deltas == 1..MaxDelta

NoRpc == [dir |-> "none"]
Request(payload) == [dir |-> "request", payload |-> payload]
Response(payload) == [dir |-> "response", payload |-> payload]

\* GCounter::new (24-30), idle, no request in flight
GCounterNew ==
    [last_read |-> 0, unconfirmed_delta |-> 0, last_read_age |-> 0,
     pc |-> "idle", rpc |-> NoRpc]

CounterInit ==
    /\ kv = NoValue
    /\ counters = [id \in CounterNodes |-> GCounterNew]
    /\ adds = [made |-> 0, sum |-> 0, refused |-> FALSE]

\* the value of the read_ok reply of handle (main.rs 43-48)
CounterRead(c) == c.last_read + c.unconfirmed_delta

\* a node that never refreshes its last read
RefreshNever(age) == FALSE
\* self.last_read_time.elapsed() >= Duration::from_millis(500) (75)
RefreshDue(age) == age >= RefreshMs

\* tick fails with the client's error: the app task ends (app.rs 182, 195)
Failed(c) == [c EXCEPT !.pc = "failed"]

\* tick after kv.read returned in its first branch (62-69): the cas goes out
AfterRead(c, value) ==
    [c EXCEPT !.last_read = value,
              !.rpc = Request(KvCompareAndSet(value, value + c.unconfirmed_delta)),
              !.pc = "cas"]

\* a tick that keeps the delta after a successful swap
AfterSwapKeepDelta(c, swap_succeeded) ==
    IF swap_succeeded
    THEN [c EXCEPT !.last_read = c.last_read + c.unconfirmed_delta,
                   !.last_read_age = 0,
                   !.rpc = NoRpc, !.pc = "idle"]
    ELSE [c EXCEPT !.rpc = NoRpc, !.pc = "idle"]

\* tick after compare_and_swap returned (70-74)
AfterSwap(c, swap_succeeded) ==
    IF swap_succeeded
    THEN [c EXCEPT !.last_read = c.last_read + c.unconfirmed_delta,
                   !.last_read_age = 0,
                   !.unconfirmed_delta = 0,
                   !.rpc = NoRpc, !.pc = "idle"]
    ELSE [c EXCEPT !.rpc = NoRpc, !.pc = "idle"]

\* tick after kv.read returned in its second branch (76-77)
AfterRefresh(c, value) ==
    [c EXCEPT !.last_read = value, !.last_read_age = 0, !.rpc = NoRpc, !.pc = "idle"]

\* the node once send_and_receive has returned the response payload
Received(c, payload) ==
    IF c.pc = "cas"
    THEN LET outcome == SeqKvCompareAndSwap(payload) IN
         IF outcome = KvFault THEN Failed(c) ELSE AfterSwap(c, outcome.swapped)
    ELSE LET outcome == SeqKvRead(payload) IN
         IF outcome = KvFault THEN Failed(c)
         ELSE IF c.pc = "read" THEN AfterRead(c, UnwrapOrDefault(outcome))
         ELSE AfterRefresh(c, UnwrapOrDefault(outcome))

CounterFrame == UNCHANGED <<rtVars, nodeVars, clusterVars, newVars>>

\* handle of add{delta} (38-41), between two ticks
CounterAdd ==
    /\ adds.made < MaxAdds
    /\ \E id \in CounterNodes, delta \in Deltas :
          /\ counters[id].pc = "idle"
          /\ counters' = [counters EXCEPT ![id].unconfirmed_delta = @ + delta]
          /\ adds' = [adds EXCEPT !.made = @ + 1, !.sum = @ + delta]
    /\ UNCHANGED kv
    /\ CounterFrame

\* tick up to its first kv.read (58-62, 75-76)
CounterTick(id) ==
    /\ counters[id].pc = "idle"
    /\ \/ /\ counters[id].unconfirmed_delta > 0
          /\ counters' = [counters EXCEPT ![id].pc = "read",
                                          ![id].rpc = Request(KvReadRequest)]
       \/ /\ counters[id].unconfirmed_delta = 0
          /\ RefreshDue(counters[id].last_read_age)
          /\ counters' = [counters EXCEPT ![id].pc = "refresh",
                                          ![id].rpc = Request(KvReadRequest)]
    /\ UNCHANGED <<kv, adds>>
    /\ CounterFrame

\* the service answers the request of node id
KvServe(id) ==
    /\ counters[id].rpc.dir = "request"
    /\ kv' = KvApply(kv, counters[id].rpc.payload)
    /\ counters' = [counters EXCEPT
                       ![id].rpc = Response(KvAnswer(kv, counters[id].rpc.payload))]
    /\ adds' = [adds EXCEPT !.refused =
                   @ \/ KvAnswer(kv, counters[id].rpc.payload) = KvError(PreconditionFailed)]
    /\ CounterFrame

\* what a service may answer at all
Replies ==
    {KvReadOk(value) : value \in 0..MaxDelta} \cup {KvWriteOk, KvCompareAndSetOk}
        \cup {KvError(code) : code \in {KeyDoesNotExist, PreconditionFailed, 11}}

\* a service that answers the request of node id with anything
KvAnyReply(id) ==
    /\ counters[id].rpc.dir = "request"
    /\ \E payload \in Replies :
          counters' = [counters EXCEPT ![id].rpc = Response(payload)]
    /\ UNCHANGED <<kv, adds>>
    /\ CounterFrame

\* send_and_receive returns the response to the tick of node id
CounterReceive(id) ==
    /\ counters[id].rpc.dir = "response"
    /\ counters[id].pc /= "failed"
    /\ counters' = [counters EXCEPT ![id] = Received(@, @.rpc.payload)]
    /\ UNCHANGED <<kv, adds>>
    /\ CounterFrame

\* 500 ms pass
CounterElapse ==
    /\ \E id \in CounterNodes : counters[id].last_read_age < RefreshMs
    /\ counters' = [id \in CounterNodes |->
                       [counters[id] EXCEPT !.last_read_age = Older(@, RefreshMs, RefreshMs)]]
    /\ UNCHANGED <<kv, adds>>
    /\ CounterFrame

CounterStart ==
    CounterInit /\ RuntimePinned /\ NodePinned /\ ClusterPinned /\ NewPinned

CounterNext ==
    \/ CounterAdd
    \/ \E id \in CounterNodes : CounterTick(id) \/ KvServe(id) \/ CounterReceive(id)
    \/ CounterElapse

AnyReplyNext == CounterNext \/ \E id \in CounterNodes : KvAnyReply(id)

\* every node's app task keeps ticking, the service answers, time passes
CounterFair ==
    /\ \A id \in CounterNodes :
          WF_vars(CounterTick(id)) /\ WF_vars(KvServe(id)) /\ WF_vars(CounterReceive(id))
    /\ WF_vars(CounterElapse)

CounterSpec == CounterStart /\ [][CounterNext]_vars /\ CounterFair

AnyReplySpec == CounterStart /\ [][AnyReplyNext]_vars

\* the response that send_and_receive hands to node id in this step
Consumed(id) ==
    /\ counters[id].rpc.dir = "response"
    /\ counters[id].pc /= "failed"
    /\ counters'[id].pc /= counters[id].pc

\* C19: a read maps error code 20, and only it, to an absent value (read as
\* 0 by the counter) and read_ok to its value; a compare-and-swap maps error
\* code 22, and only it, to "not swapped" (the counter keeps its delta) and
\* cas_ok to "swapped"; every other reply is an error that ends the tick
C19_ReplyMapping ==
    [][\A id \in CounterNodes :
          Consumed(id) =>
              LET c == counters[id]
                  after == counters'[id]
                  payload == c.rpc.payload
              IN  IF c.pc = "cas"
                  THEN /\ payload.type = "cas_ok" =>
                              /\ after.pc = "idle"
                              /\ after.unconfirmed_delta = 0
                              /\ after.last_read = c.last_read + c.unconfirmed_delta
                       /\ (payload.type = "error" /\ payload.code = 22) =>
                              /\ after.pc = "idle"
                              /\ after.unconfirmed_delta = c.unconfirmed_delta
                              /\ after.last_read = c.last_read
                       /\ (payload.type /= "cas_ok"
                              /\ ~(payload.type = "error" /\ payload.code = 22)) =>
                              after = [c EXCEPT !.pc = "failed"]
                  ELSE /\ payload.type = "read_ok" =>
                              /\ after.pc /= "failed"
                              /\ after.last_read = payload.value
                       /\ (payload.type = "error" /\ payload.code = 20) =>
                              /\ after.pc /= "failed"
                              /\ after.last_read = 0
                       /\ (payload.type /= "read_ok"
                              /\ ~(payload.type = "error" /\ payload.code = 20)) =>
                              after = [c EXCEPT !.pc = "failed"]]_vars

\* one tick failed on error 22 in reply to its read while the other node
\* took error 20 in reply to its read as an absent value and sent cas(0, delta)
C19_Witness ==
    \E id, other \in CounterNodes :
        /\ counters[id].pc = "failed"
        /\ counters[id].rpc = Response(KvError(22))
        /\ counters[id].unconfirmed_delta > 0
        /\ counters[id].last_read = 0
        /\ counters[other].pc = "cas"
        /\ counters[other].rpc.dir = "request"
        /\ counters[other].rpc.payload.from = 0
        /\ kv = NoValue

\* what every node answers to a read
AllRead(value) == \A id \in CounterNodes : CounterRead(counters[id]) = value

\* C20: once the adds have stopped, with a working service, every node's
\* read settles on the sum of all deltas ever acknowledged
C20_EventualSum == <>[]AllRead(adds.sum)

\* all adds were made on both nodes, a compare-and-swap was refused and
\* retried, and both nodes read the sum
C20_Witness ==
    /\ adds.made = MaxAdds
    /\ adds.refused
    /\ kv = adds.sum
    /\ AllRead(adds.sum)
    /\ \A id \in CounterNodes :
          /\ counters[id].pc = "idle"
          /\ counters[id].unconfirmed_delta = 0
          /\ counters[id].last_read > 0

(***************************************************************************)
(* Claims about the batches a broadcast node holds for its neighbors.      *)
(***************************************************************************)
\* the unacked batches of neighbor n in node state st
UnackedOf(st, n) == {key \in DOMAIN st.neighbor_messages_not_acked : key[1] = n}

\* the values node state st holds for neighbor n, pending or unacked
Held(st, n) ==
    (IF n \in DOMAIN st.batched_sends_to_neighbors
     THEN Range(st.batched_sends_to_neighbors[n].messages) ELSE {})
        \cup UNION {Range(key[2]) : key \in UnackedOf(st, n)}

\* the broadcast_batched_ok envelopes the harness may deliver to the node
AckInputs == {message \in Inputs(bnode) : message.payload.type = "broadcast_batched_ok"}

\* the step handles a broadcast_batched_ok of neighbor n whose in_reply_to is
\* the stored msg_id of an unacked batch that holds value v
AckedAway(n, v) ==
    \E key \in UnackedOf(bnode, n), message \in AckInputs :
        /\ v \in Range(key[2])
        /\ message.src = n
        /\ message.in_reply_to = bnode.neighbor_messages_not_acked[key].message_id
        /\ bnode' = Handle(Drained(bnode), message)

\* the step is a tick
Ticked == bnode' \in Tick(Drained(bnode))

\* C21: a value held for a neighbor (pending or unacked) is still held for it
\* after every step, unless the step handles a broadcast_batched_ok of that
\* neighbor whose in_reply_to matches the stored msg_id of its batch; a tick
\* puts every batch it takes out of pending into unacked in the same step and
\* removes no unacked entry.
C21_NoDropBeforeAck ==
    [][/\ \A n \in Range(bnode.neighbors) :
             \A v \in Held(bnode, n) : v \in Held(bnode', n) \/ AckedAway(n, v)
       /\ Ticked =>
             /\ NotAcked \subseteq DOMAIN bnode'.neighbor_messages_not_acked
             /\ \A n \in DOMAIN bnode.batched_sends_to_neighbors :
                   n \notin DOMAIN bnode'.batched_sends_to_neighbors =>
                       <<n, Pending(n).messages>> \in DOMAIN bnode'.neighbor_messages_not_acked
             /\ DOMAIN bnode'.batched_sends_to_neighbors
                   \subseteq DOMAIN bnode.batched_sends_to_neighbors]_vars

\* a batch was flushed and resent and is still unacked, while a later value
\* waits in the pending batch of the same neighbor
C21_Witness ==
    \E key \in NotAcked :
        /\ Len(bhist.ids[key]) >= 2
        /\ key[1] \in DOMAIN bnode.batched_sends_to_neighbors
        /\ Pending(key[1]).messages /= <<>>

\* the node after handling the acknowledgement
Acked(message) == Handle(Drained(bnode), message)

\* C22: handling a broadcast_batched_ok of node s removes the entry of s whose
\* stored msg_id is the in_reply_to, and nothing but it: at most one entry
\* goes, every other entry, the pending batches, messages_seen, the neighbors
\* and the msg_id counter stay, nothing is emitted, and an acknowledgement
\* that matches no stored msg_id of s changes nothing.
C22_AckFrame ==
    \A message \in AckInputs :
        LET before == Drained(bnode).neighbor_messages_not_acked
            after == Acked(message).neighbor_messages_not_acked
            gone == DOMAIN before \ DOMAIN after
            matching == {key \in DOMAIN before :
                            /\ key[1] = message.src
                            /\ before[key].message_id = message.in_reply_to}
        IN  /\ gone = matching
            /\ Cardinality(gone) <= 1
            /\ DOMAIN after \subseteq DOMAIN before
            /\ \A key \in DOMAIN after : after[key] = before[key]
            /\ Acked(message) = [Drained(bnode) EXCEPT !.neighbor_messages_not_acked = after]
            /\ matching = {} => Acked(message) = Drained(bnode)

\* a chunk leader sent the batches <<1>> and <<2>> to its only neighbor one after the
\* other, and an acknowledgement has removed the entry of the first while the
\* entry of the second is still there
C22_Witness ==
    /\ bnode.always_broadcast
    /\ Len(bnode.neighbors) = 1
    /\ bnode.messages_seen = {1, 2}
    /\ DOMAIN bnode.batched_sends_to_neighbors = {}
    /\ NotAcked = {<<bnode.neighbors[1], <<2>>>>}
    /\ bnode.out = <<>>

\* C23: every unacked entry stores the msg_id of the latest broadcast_batched
\* envelope emitted for its batch to its neighbor, and no two unacked entries
\* store the same msg_id.
C23_LatestIdStored ==
    /\ \A key \in NotAcked :
          /\ bhist.ids[key] /= <<>>
          /\ bnode.neighbor_messages_not_acked[key].message_id = Last(bhist.ids[key])
    /\ \A key, other \in NotAcked :
          bnode.neighbor_messages_not_acked[key].message_id
              = bnode.neighbor_messages_not_acked[other].message_id => key = other

\* a batch was sent and resent and its entry stores the id of the resend
C23_Witness ==
    \E key \in NotAcked :
        /\ Len(bhist.ids[key]) >= 2
        /\ bnode.neighbor_messages_not_acked[key].message_id = Last(bhist.ids[key])
        /\ bnode.neighbor_messages_not_acked[key].message_id
              /= bhist.ids[key][1]

\* how often value v occurs in the batches node state st holds for neighbor n
HeldCount(st, n, v) ==
    (IF n \in DOMAIN st.batched_sends_to_neighbors
     THEN Count(st.batched_sends_to_neighbors[n].messages, v) ELSE 0)
        + Cardinality({<<key, i>> \in UnackedOf(st, n) \X (1..(MaxValue + 1)) :
                          i <= Len(key[2]) /\ key[2][i] = v})

\* C24: a value is enqueued for a neighbor only in the step that first puts it
\* into messages_seen, which never loses a value, so at most once in the life
\* of the node; hence in every state each value occurs at most once in the
\* pending batch and the unacked batches of one neighbor taken together, and
\* the pending batch of a neighbor is not the key of one of its unacked entries.
C24_EnqueuedOnce ==
    /\ [](\A n \in Range(bnode.neighbors) :
            /\ \A v \in Values : HeldCount(bnode, n, v) <= 1
            /\ Held(bnode, n) \subseteq bnode.messages_seen
            /\ n \in DOMAIN bnode.batched_sends_to_neighbors =>
                  <<n, Pending(n).messages>> \notin NotAcked)
    /\ [][/\ bnode.messages_seen \subseteq bnode'.messages_seen
          /\ \A n \in DOMAIN bnode'.batched_sends_to_neighbors :
                \A v \in Range(Enqueued(n)) :
                    \/ /\ v \notin bnode.messages_seen
                       /\ v \in bnode'.messages_seen
                       /\ Count(Enqueued(n), v) = 1
                    \/ /\ n \in DOMAIN bnode.batched_sends_to_neighbors
                       /\ bnode'.batched_sends_to_neighbors[n].messages = Pending(n).messages]_vars

\* both values are held for one neighbor in two separate batches, one unacked
\* and one pending, and the node has just answered a broadcast_batched
C24_Witness ==
    \E n \in Range(bnode.neighbors) :
        /\ n \in DOMAIN bnode.batched_sends_to_neighbors
        /\ UnackedOf(bnode, n) /= {}
        /\ Held(bnode, n) = Values
        /\ Len(bnode.out) = 1
        /\ bnode.out[1].payload.type = "broadcast_batched_ok"

(***************************************************************************)
(* Conservation of the counter.                                            *)
(***************************************************************************)
\* the value under the counter key, 0 while the key is absent
Stored == IF kv = NoValue THEN 0 ELSE kv

RECURSIVE SumOver(_, _)
SumOver(f, S) ==
    IF S = {} THEN 0
    ELSE LET x == CHOOSE y \in S : TRUE IN f[x] + SumOver(f, S \ {x})

\* the sum of unconfirmed_delta over all nodes
Unconfirmed == SumOver([id \in CounterNodes |-> counters[id].unconfirmed_delta], CounterNodes)

\* no node is between the start of a tick and its end
NoTickRunning == \A id \in CounterNodes : counters[id].pc = "idle"

\* C25: whenever no tick is running, the stored counter (0 if absent) plus the
\* unconfirmed deltas of all nodes is the sum of the deltas of the adds handled
\* so far; and a node that can answer a read answers no more than that sum.
C25_Conservation ==
    /\ NoTickRunning => Stored + Unconfirmed = adds.sum
    /\ \A id \in CounterNodes :
          counters[id].pc = "idle" => CounterRead(counters[id]) <= adds.sum

\* all adds are handled, a compare-and-swap of one node was refused while the
\* other node's took effect, and the refused delta is still unconfirmed
C25_Witness ==
    /\ NoTickRunning
    /\ adds.made = MaxAdds
    /\ adds.refused
    /\ kv > 0
    /\ \E id \in CounterNodes : counters[id].unconfirmed_delta > 0
    /\ \E id \in CounterNodes : counters[id].unconfirmed_delta = 0 /\ counters[id].last_read > 0

====
